---- MODULE Spec2Model ----
(***************************************************************************)
(* Conversation history and summarization engine of the Chat component    *)
(* (src/src/components/Conversations.tsx, lines 59-330).                   *)
(*                                                                         *)
(* Text is a sequence of tokens; " " and "\n" are the whitespace tokens.   *)
(* The store keeps the rows of the open conversation in created_at order,  *)
(* the order fetchMessages returns them in.  A handler reads the `conv`    *)
(* and `messages` of the render it was created in: each in-flight handler  *)
(* carries that snapshot in its task record.  Calls to the store succeed;  *)
(* the inference and the summarizer calls may fail.                        *)
(***************************************************************************)
EXTENDS Integers, Sequences, FiniteSets, TLC

VARIABLES
    store,      \* rows of table messages for the conversation, in created_at order
    summary,    \* conversations.running_summary as stored
    conv,       \* React state conv: [loaded, running_summary]
    messages,   \* React state messages
    tasks,      \* in-flight handlers, one record per slot
    pending,    \* inserts issued without await, not yet applied by the store
    nextId,     \* next row identity
    sends,      \* number of dispatches started
    edits,      \* number of edit/delete/regenerate/reload operations started
    odd,        \* number of irregular events so far
    sumLog,     \* history: per successful compaction, the ids of the turns in its transcript
    lastAlert,  \* the alert() raised by the latest step, "none" if it raised none
    title,      \* conversations.title as stored
    status,     \* React state status, the text of the status bar
    conversationId,  \* the conversationId prop App passes to Chat
    loads,      \* runs of the load effect and of reload that await the store
    event,      \* a request to the chat endpoint, with the environment it meets
    response    \* what the endpoint answered and what the client made of it

\* the variables of the conversation switch and of the chat endpoint, which the handlers
\* of one open conversation leave alone
apart == <<conversationId, loads, event, response>>

vars == <<store, summary, conv, messages, tasks, pending, nextId, sends, edits, odd,
          sumLog, lastAlert, title, status, apart>>

----------------------------------------------------------------------------
(* Program constants *)
SUMMARIZE_AFTER == 20
KEEP_RECENT == 10
TITLE_MAX == 60

(* Bounds of the model *)
MaxSends == 12
MaxEdits == 1
MaxOdd == 1
MaxInflight == 2
MaxConcSends == 3
MaxEditSends == 2
MaxLongSends == 1
MaxLongDispatches == 3
MaxSwitches == 2
MaxSwitchSends == 1

Slots == 1..MaxInflight

NoId == 0
WS == {" ", "\n"}
SeedContent == <<"You are a helpful assistant.">>
NoContent == <<"(no content)">>
SummaryHeader == <<"Conversation so far (summary):", "\n">>

\* a conversation as an earlier session left it in the store
Prior ==
    <<[id |-> 1, role |-> "system", content |-> SeedContent, idx |-> 0],
      [id |-> 2, role |-> "user", content |-> <<"h">>, idx |-> 1],
      [id |-> 3, role |-> "assistant", content |-> <<"r">>, idx |-> 2],
      [id |-> 4, role |-> "user", content |-> <<"h">>, idx |-> 3],
      [id |-> 5, role |-> "assistant", content |-> <<"r">>, idx |-> 4]>>

StoredConversations == {SubSeq(Prior, 1, n) : n \in {0, 3, 5}}

\* the running_summary such a session left with the conversation
StoredSummaries == {<<>>, <<"s">>}

\* a conversation of SUMMARIZE_AFTER + 1 turns as an earlier session left it in the store;
\* its fifth turn was edited to the empty text (saveEdit stores `text ?? ''` as it comes)
Long ==
    [k \in 1..(SUMMARIZE_AFTER + 1) |->
        [id |-> k,
         role |-> IF k = 1 THEN "system" ELSE IF k % 2 = 0 THEN "user" ELSE "assistant",
         content |-> IF k = 1 THEN SeedContent
                     ELSE IF k = 5 THEN <<>>
                     ELSE IF k % 2 = 0 THEN <<"h">> ELSE <<"r">>,
         idx |-> k - 1]]

(* Inputs *)
Texts == {<<" ">>, <<"h">>, <<"h", " ">>}
Replies == {<<"r">>, <<>>}
Summaries == {<<"s">>, <<"t", " ">>, <<>>}
EditTexts == {<<"e">>}

----------------------------------------------------------------------------
(* Pure helpers *)

Max(a, b) == IF a >= b THEN a ELSE b

RECURSIVE TrimStart(_)
TrimStart(s) ==
    IF s # <<>> /\ Head(s) \in WS THEN TrimStart(Tail(s)) ELSE s

RECURSIVE TrimEnd(_)
TrimEnd(s) ==
    IF s # <<>> /\ s[Len(s)] \in WS THEN TrimEnd(SubSeq(s, 1, Len(s) - 1)) ELSE s

\* a trim that leaves the text as it is
Trim_Nothing(s) == s

\* String.prototype.trim
Trim(s) == TrimEnd(TrimStart(s))

\* String.prototype.replace(/\s+/g, ' '): every run of whitespace becomes one space
RECURSIVE Collapse(_)
Collapse(s) ==
    IF s = <<>> THEN <<>>
    ELSE IF Head(s) \in WS THEN <<" ">> \o Collapse(TrimStart(s))
    ELSE <<Head(s)>> \o Collapse(Tail(s))

\* Array.prototype.slice(from, to) on a 0-based array held as a 1-based sequence
Slice(s, from, to) == SubSeq(s, from + 1, IF to > Len(s) THEN Len(s) ELSE to)

IsPrefix(p, s) == Len(p) <= Len(s) /\ SubSeq(s, 1, Len(p)) = p

Range(s) == {s[k] : k \in 1..Len(s)}

\* a stored row as the in-memory Message fetchMessages returns
AsMessage(r) == [id |-> r.id, tag |-> r.id, role |-> r.role, content |-> r.content, idx |-> r.idx]

\* an optimistic in-memory Message that shows the placeholder instead of the content
Optimistic_Placeholder(tag, role, content, idx) ==
    [id |-> NoId, tag |-> tag, role |-> role, content |-> NoContent, idx |-> idx]

\* an optimistic in-memory Message: it carries no id
Optimistic(tag, role, content, idx) ==
    [id |-> NoId, tag |-> tag, role |-> role, content |-> content, idx |-> idx]

\* an insert that numbers the row one too high
Row_OneTooHigh(id, role, content, idx) == [id |-> id, role |-> role, content |-> content, idx |-> idx + 1]

Row(id, role, content, idx) == [id |-> id, role |-> role, content |-> content, idx |-> idx]

\* fetchMessages: the rows of the conversation ordered by created_at
fetchMessages(st) == [k \in 1..Len(st) |-> AsMessage(st[k])]

\* supabase .delete().eq('id', id): an absent id matches no row
DeleteById(st, id) == SelectSeq(st, LAMBDA r : r.id # id \/ id = NoId)

RECURSIVE DeleteAll(_, _)
DeleteAll(st, ms) ==
    IF ms = <<>> THEN st ELSE DeleteAll(DeleteById(st, Head(ms).id), Tail(ms))

\* a re-pack loop that numbers the rows from 1
Repack_FromOne(st) == [k \in 1..Len(st) |-> IF st[k].idx # k THEN [st[k] EXCEPT !.idx = k] ELSE st[k]]

\* the re-pack loop: every row whose idx differs from its position gets idx := position
Repack(st) == [k \in 1..Len(st) |-> IF st[k].idx # k - 1 THEN [st[k] EXCEPT !.idx = k - 1] ELSE st[k]]

\* the number of index-update writes one re-pack pass issues
RepackWrites(st) == Cardinality({k \in 1..Len(st) : st[k].idx # k - 1})

\* the {role, content} pairs sent to the inference endpoint
Pairs(ms) == [k \in 1..Len(ms) |-> [role |-> ms[k].role, content |-> ms[k].content]]

\* a payload that gets the synthetic system turn even when there is no summary
WithSummary_Always(rs, base) ==
    <<[role |-> "system", content |-> SummaryHeader \o rs]>> \o base

WithSummary(rs, base) ==
    IF rs # <<>>
    THEN <<[role |-> "system", content |-> SummaryHeader \o rs]>> \o base
    ELSE base

\* send: the title computed from the user text
TitleOf(content) == Slice(Collapse(content), 0, TITLE_MAX)

\* String.prototype.toUpperCase on a role
ToUpperCase(role) ==
    CASE role = "system" -> "SYSTEM"
      [] role = "user" -> "USER"
      [] role = "assistant" -> "ASSISTANT"

\* a transcript line that is the content alone
Line_ContentOnly(m) == m.content

\* maybeSummarize: the transcript line of a turn, `[${m.role.toUpperCase()}] ${m.content}`
Line(m) == <<"[", ToUpperCase(m.role), "] ">> \o m.content

\* maybeSummarize: the lines of the window joined by a blank line
RECURSIVE Transcript(_)
Transcript(ms) ==
    IF ms = <<>> THEN <<>>
    ELSE IF Len(ms) = 1 THEN Line(ms[1])
    ELSE Line(ms[1]) \o <<"\n", "\n">> \o Transcript(Tail(ms))

\* the summarize endpoint: `if (!transcript || typeof transcript !== 'string')` answers
\* 400 'transcript (string) required'; the client always sends a string
TranscriptRequired(transcript) == transcript = <<>>

\* a middle window that starts at the system turn
Middle_WithHead(ms) == Slice(ms, 0, Max(Len(ms) - KEEP_RECENT, 1))

\* maybeSummarize: the middle window of the captured messages
Middle(ms) == Slice(ms, 1, Max(Len(ms) - KEEP_RECENT, 1))

\* a compaction that replaces the running summary instead of appending to it
JoinSummary_Replace(rs, s) == s

\* maybeSummarize: the new running summary
JoinSummary(rs, s) ==
    LET running == Trim(rs) IN
    IF running # <<>> THEN running \o <<"\n", "\n">> \o s ELSE s

IdleTask == [pc |-> "idle", msgs |-> <<>>, rs |-> <<>>, content |-> <<>>, at |-> 0,
             payload |-> <<>>, middle |-> <<>>]

Idle == \A s \in Slots : tasks[s].pc = "idle"

\* a step taken while an un-awaited insert is still in flight overtakes it
MayStep == pending = <<>> \/ odd < MaxOdd
Overtaken == IF pending # <<>> THEN 1 ELSE 0

----------------------------------------------------------------------------
\* one conversation open, no load in flight, no request at the endpoint
InitApart ==
    /\ conversationId = "A"
    /\ loads = <<>>
    /\ event = <<>>
    /\ response = <<>>

Init ==
    /\ store = <<>>
    /\ summary = <<>>
    /\ conv = [loaded |-> FALSE, running_summary |-> <<>>]
    /\ messages = <<>>
    /\ tasks = [s \in Slots |-> IdleTask]
    /\ pending = <<>>
    /\ nextId = 1
    /\ sends = 0
    /\ edits = 0
    /\ odd = 0
    /\ sumLog = <<>>
    /\ lastAlert = "none"
    /\ title = <<>>
    /\ status = "Ready"
    /\ InitApart

\* the load effect run on mount: read the conversation, seed the system turn if none
Load ==
    /\ ~conv.loaded
    /\ Idle
    /\ LET seeded == IF Len(store) = 0
                     THEN <<Row(nextId, "system", SeedContent, 0)>>
                     ELSE store
       IN /\ store' = seeded
          /\ nextId' = IF Len(store) = 0 THEN nextId + 1 ELSE nextId
          /\ messages' = fetchMessages(seeded)
    /\ conv' = [loaded |-> TRUE, running_summary |-> summary]
    /\ lastAlert' = "none"
    /\ UNCHANGED <<summary, tasks, pending, sends, title, apart, edits, odd, sumLog>>
    /\ status' = "Ready"

\* the component mounted on a conversation that is new or that an earlier session filled
InitEdit ==
    /\ store \in StoredConversations
    /\ summary \in IF store = <<>> THEN {<<>>} ELSE StoredSummaries
    /\ conv = [loaded |-> FALSE, running_summary |-> <<>>]
    /\ messages = <<>>
    /\ tasks = [s \in Slots |-> IdleTask]
    /\ pending = <<>>
    /\ nextId = Len(store) + 1
    /\ sends = 0
    /\ edits = 0
    /\ odd = 0
    /\ sumLog = <<>>
    /\ lastAlert = "none"
    /\ title = <<>>
    /\ status = "Ready"
    /\ InitApart

\* the component mounted on a long conversation that an earlier session filled
InitLong ==
    /\ store = Long
    /\ summary = <<>>
    /\ conv = [loaded |-> FALSE, running_summary |-> <<>>]
    /\ messages = <<>>
    /\ tasks = [s \in Slots |-> IdleTask]
    /\ pending = <<>>
    /\ nextId = Len(Long) + 1
    /\ sends = 0
    /\ edits = 0
    /\ odd = 0
    /\ sumLog = <<>>
    /\ lastAlert = "none"
    /\ title = <<>>
    /\ status = "Ready"
    /\ InitApart

\* a reload that keeps the conversation row it has in memory
ReloadedConv_InMemory(sm) == [loaded |-> TRUE, running_summary |-> conv.running_summary]

\* reload: the in-memory conversation and messages as read back from the store
ReloadedConv(sm) == [loaded |-> TRUE, running_summary |-> sm]

FreeSlot == CHOOSE s \in Slots : tasks[s].pc = "idle" /\ \A r \in Slots : tasks[r].pc = "idle" => s <= r

----------------------------------------------------------------------------
(* send *)

\* send up to the await of callAssistant: optimistic append, un-awaited insert, payload
SendStart(text) ==
    /\ conv.loaded
    /\ Trim(text) # <<>>
    /\ sends < MaxSends
    /\ \E s \in Slots : tasks[s].pc = "idle"
    /\ MayStep
    /\ LET content == Trim(text)
           userIdx == Len(messages)
           base == Pairs(Append(messages, Optimistic(nextId, "user", content, userIdx)))
       IN /\ messages' = Append(messages, Optimistic(nextId, "user", content, userIdx))
          /\ pending' = Append(pending, Row(nextId, "user", content, userIdx))
          /\ tasks' = [tasks EXCEPT ![FreeSlot] =
                          [pc |-> "awaitReply", msgs |-> messages, rs |-> conv.running_summary,
                           content |-> content, at |-> userIdx,
                           payload |-> WithSummary(conv.running_summary, base),
                           middle |-> <<>>]]
    /\ nextId' = nextId + 1
    /\ sends' = sends + 1
    /\ odd' = odd + Overtaken
    /\ lastAlert' = "none"
    /\ UNCHANGED <<store, summary, conv, edits, sumLog, title, apart>>
    /\ status' = "Sending..."

\* send called with no conversation loaded, or with text that is empty once trimmed
SendRejected(text) ==
    /\ ~conv.loaded \/ Trim(text) = <<>>
    /\ lastAlert' = IF ~conv.loaded THEN "noConversation" ELSE "none"
    /\ UNCHANGED <<store, summary, conv, messages, tasks, pending, nextId, sends, title, apart, edits, odd,
                   sumLog>>
    /\ status' = status

\* maybeSummarize up to the await of the summarizer call, on the messages the handler captured
SummarizeStart(t) ==
    IF ~(Len(t.msgs) <= SUMMARIZE_AFTER) /\ Middle(t.msgs) # <<>>
    THEN [t EXCEPT !.pc = "awaitSummary", !.middle = Middle(t.msgs)]
    ELSE IdleTask

\* callAssistant resolved: optimistic append and insert of the assistant turn, then maybeSummarize.
\* The update({title}) of line 224 is built and dropped: the query builder sends its
\* request when it is awaited or then-ed, and this one is neither, so the stored title stays.
SendReplyOk(s, reply) ==
    /\ tasks[s].pc = "awaitReply"
    /\ MayStep
    /\ reply = <<>> => odd + Overtaken < MaxOdd
    /\ LET t == tasks[s]
           content == IF reply = <<>> THEN NoContent ELSE reply
       IN /\ messages' = Append(messages, Optimistic(nextId, "assistant", content, t.at + 1))
          /\ store' = Append(store, Row(nextId, "assistant", content, t.at + 1))
          /\ tasks' = [tasks EXCEPT ![s] = SummarizeStart(t)]
    /\ nextId' = nextId + 1
    /\ odd' = odd + Overtaken + (IF reply = <<>> THEN 1 ELSE 0)
    /\ lastAlert' = "none"
    /\ UNCHANGED <<summary, conv, pending, sends, title, apart, edits, sumLog>>
    /\ status' = IF SummarizeStart(tasks[s]).pc = "awaitSummary" THEN "Summarizing older turns..." ELSE "Ready"

\* a catch block that alerts and does not reload
SendReplyFail_NoReload(s) ==
    /\ tasks[s].pc = "awaitReply"
    /\ odd < MaxOdd
    /\ tasks' = [tasks EXCEPT ![s] = IdleTask]
    /\ odd' = odd + Overtaken + 1
    /\ lastAlert' = "assistantError"
    /\ UNCHANGED <<store, summary, conv, messages, pending, nextId, sends, title, apart, edits, sumLog>>
    /\ status' = "Assistant call failed"

\* callAssistant threw: the catch block alerts and reloads; the user-turn insert was
\* issued without await and need not have been applied when reload reads the store
SendReplyFail(s) ==
    /\ tasks[s].pc = "awaitReply"
    /\ odd < MaxOdd
    /\ conv' = ReloadedConv(summary)
    /\ messages' = fetchMessages(store)
    /\ tasks' = [tasks EXCEPT ![s] = IdleTask]
    /\ odd' = odd + Overtaken + 1
    /\ lastAlert' = "assistantError"
    /\ UNCHANGED <<store, summary, pending, nextId, sends, title, apart, edits, sumLog>>
    /\ status' = "Ready"

\* the summarizer answered with a non-2xx status: logged, nothing else
SummaryHttpError(s) ==
    /\ tasks[s].pc = "awaitSummary"
    /\ odd + Overtaken < MaxOdd
    /\ tasks' = [tasks EXCEPT ![s] = IdleTask]
    /\ odd' = odd + Overtaken + 1
    /\ lastAlert' = "none"
    /\ UNCHANGED <<store, summary, conv, messages, pending, nextId, sends, title, apart, edits, sumLog>>
    /\ status' = "Ready"

\* fetch rejected or JSON.parse threw inside maybeSummarize: the exception leaves
\* maybeSummarize and lands in the catch block of send
SummaryThrow(s) ==
    /\ tasks[s].pc = "awaitSummary"
    /\ odd + Overtaken < MaxOdd
    /\ conv' = ReloadedConv(summary)
    /\ messages' = fetchMessages(store)
    /\ tasks' = [tasks EXCEPT ![s] = IdleTask]
    /\ odd' = odd + Overtaken + 1
    /\ lastAlert' = "assistantError"
    /\ UNCHANGED <<store, summary, pending, nextId, sends, title, apart, edits, sumLog>>
    /\ status' = "Ready"

\* ids of the turns of a window, as far as the in-memory copies carry one
Tags(ms) == {ms[k].tag : k \in 1..Len(ms)}

\* a compaction that drops the window from the sequence in memory and does not reload
Compact_NoReload(s, newSummary) ==
    LET t == tasks[s]
        fresh == DeleteAll(store, t.middle)
    IN /\ summary' = newSummary
       /\ store' = Repack(fresh)
       /\ messages' = SelectSeq(messages, LAMBDA m : m.tag \notin Tags(t.middle))
       /\ tasks' = [tasks EXCEPT ![s] = IdleTask]
       /\ odd' = odd + Overtaken
       /\ lastAlert' = "none"
       /\ UNCHANGED <<conv, pending, nextId, sends, title, apart, edits>>
       /\ status' = status

\* maybeSummarize after a 200 response whose body parsed: persist the summary, delete the
\* window, re-pack, reload.  `newSummary` is what update({running_summary}) stores.
Compact(s, newSummary) ==
    LET t == tasks[s]
        fresh == DeleteAll(store, t.middle)
    IN /\ summary' = newSummary
       /\ store' = Repack(fresh)
       /\ conv' = ReloadedConv(newSummary)
       /\ messages' = fetchMessages(Repack(fresh))
       /\ tasks' = [tasks EXCEPT ![s] = IdleTask]
       /\ odd' = odd + Overtaken
       /\ lastAlert' = "none"
       /\ UNCHANGED <<pending, nextId, sends, title, apart, edits>>
       /\ status' = "Ready"

\* the summarizer answered 200 with {summary: summ}
SummaryOk(s, summ) ==
    /\ tasks[s].pc = "awaitSummary"
    /\ MayStep
    /\ Compact(s, JoinSummary(tasks[s].rs, summ))
    /\ sumLog' = Append(sumLog, Tags(tasks[s].middle))

\* the summarizer answered 200 with a JSON body that has no summary member: the
\* destructured summary is undefined, `${running}\n\n${summary}` prints it as "undefined",
\* and without a prior summary update({running_summary: undefined}) sends no column
SummaryMissing(s) ==
    /\ tasks[s].pc = "awaitSummary"
    /\ odd + Overtaken < MaxOdd
    /\ Compact(s, IF Trim(tasks[s].rs) # <<>>
                  THEN JoinSummary(tasks[s].rs, <<"undefined">>)
                  ELSE summary)
    /\ UNCHANGED sumLog

\* the store applies an insert that was issued without await
UserInsertLands ==
    /\ pending # <<>>
    /\ store' = Append(store, Head(pending))
    /\ pending' = Tail(pending)
    /\ UNCHANGED <<summary, conv, messages, tasks, nextId, sends, title, apart, edits, odd, sumLog, lastAlert>>
    /\ status' = status

\* the store rejects an insert that was issued without await: the error is logged
UserInsertFails ==
    /\ pending # <<>>
    /\ odd < MaxOdd
    /\ pending' = Tail(pending)
    /\ odd' = odd + 1
    /\ UNCHANGED <<store, summary, conv, messages, tasks, nextId, sends, title, apart, edits, sumLog,
                   lastAlert>>
    /\ status' = status

\* callAssistant resolved and the store rejects the insert of the assistant turn: the
\* error is logged (line 219) and send goes on, maybeSummarize included; the turn stays in
\* memory only
AssistantInsertFails(s, reply) ==
    /\ tasks[s].pc = "awaitReply"
    /\ odd + Overtaken < MaxOdd
    /\ LET t == tasks[s]
           content == IF reply = <<>> THEN NoContent ELSE reply
       IN /\ messages' = Append(messages, Optimistic(nextId, "assistant", content, t.at + 1))
          /\ tasks' = [tasks EXCEPT ![s] = SummarizeStart(t)]
    /\ odd' = odd + Overtaken + 1
    /\ lastAlert' = "none"
    /\ UNCHANGED <<store, summary, conv, pending, nextId, sends, title, apart, edits, sumLog>>
    /\ status' = IF SummarizeStart(tasks[s]).pc = "awaitSummary" THEN "Summarizing older turns..." ELSE "Ready"

\* the load effect when its first fetchMessages fails: the error is logged and [] returned,
\* so the system turn is seeded whatever the store holds; the second fetchMessages succeeds
LoadFetchFails ==
    /\ ~conv.loaded
    /\ Idle
    /\ odd < MaxOdd
    /\ store' = Append(store, Row(nextId, "system", SeedContent, 0))
    /\ nextId' = nextId + 1
    /\ messages' = fetchMessages(Append(store, Row(nextId, "system", SeedContent, 0)))
    /\ conv' = [loaded |-> TRUE, running_summary |-> summary]
    /\ odd' = odd + 1
    /\ lastAlert' = "none"
    /\ UNCHANGED <<summary, tasks, pending, sends, title, apart, edits, sumLog>>
    /\ status' = "Ready"

----------------------------------------------------------------------------
(* reload, saveEdit, deleteMsg *)

\* reload, as wired to Settings.onChanged, once the load effect has finished
Reload ==
    /\ conv.loaded
    /\ edits < MaxEdits
    /\ MayStep
    /\ conv' = ReloadedConv(summary)
    /\ messages' = fetchMessages(store)
    /\ edits' = edits + 1
    /\ odd' = odd + Overtaken
    /\ lastAlert' = "none"
    /\ UNCHANGED <<store, summary, tasks, pending, nextId, sends, title, apart, sumLog>>
    /\ status' = "Ready"

\* an update({content}) without the .eq('id', id) filter
UpdateContent_Unfiltered(st, id, text) ==
    [k \in 1..Len(st) |-> [st[k] EXCEPT !.content = text]]

\* supabase .update({content}).eq('id', id)
UpdateContent(st, id, text) ==
    [k \in 1..Len(st) |-> IF st[k].id = id /\ id # NoId THEN [st[k] EXCEPT !.content = text] ELSE st[k]]

\* saveEdit(i, text); i is 0-based
SaveEdit(i, text) ==
    /\ conv.loaded
    /\ edits < MaxEdits
    /\ MayStep
    /\ i < Len(messages)
    /\ LET m == messages[i + 1] IN
       IF m.id = NoId
       THEN \* reload, then the captured messages[i] still has no id: alert and return
            /\ conv' = ReloadedConv(summary)
            /\ messages' = fetchMessages(store)
            /\ lastAlert' = "couldNotEdit"
            /\ UNCHANGED store
       ELSE /\ store' = UpdateContent(store, m.id, text)
            /\ messages' = [messages EXCEPT ![i + 1].content = text]
            /\ lastAlert' = "none"
            /\ UNCHANGED conv
    /\ edits' = edits + 1
    /\ odd' = odd + Overtaken
    /\ UNCHANGED <<summary, tasks, pending, nextId, sends, title, apart, sumLog>>
    /\ status' = "Ready"

\* a deleteMsg without the guard on index 0
DeleteMsg_AnyIndex(i) ==
    /\ conv.loaded
    /\ edits < MaxEdits
    /\ MayStep
    /\ i < Len(messages)
    /\ store' = Repack(DeleteById(store, messages[i + 1].id))
    /\ conv' = ReloadedConv(summary)
    /\ messages' = fetchMessages(Repack(DeleteById(store, messages[i + 1].id)))
    /\ lastAlert' = "none"
    /\ edits' = edits + 1
    /\ odd' = odd + Overtaken
    /\ UNCHANGED <<summary, tasks, pending, nextId, sends, title, apart, sumLog>>
    /\ status' = "Ready"

\* deleteMsg(i); i is 0-based
DeleteMsg(i) ==
    /\ conv.loaded
    /\ edits < MaxEdits
    /\ MayStep
    /\ i < Len(messages)
    /\ LET m == messages[i + 1] IN
       IF i = 0
       THEN /\ lastAlert' = "cannotDeleteSystem"
            /\ UNCHANGED <<store, conv, messages>>
       ELSE \* (reload when m has no id), delete by the captured id, re-pack, reload
            /\ store' = Repack(DeleteById(store, m.id))
            /\ conv' = ReloadedConv(summary)
            /\ messages' = fetchMessages(Repack(DeleteById(store, m.id)))
            /\ lastAlert' = "none"
    /\ edits' = edits + 1
    /\ odd' = odd + Overtaken
    /\ UNCHANGED <<summary, tasks, pending, nextId, sends, title, apart, sumLog>>
    /\ status' = IF i = 0 THEN status ELSE "Ready"

\* saveEdit(i, text) when update({content}) returns an error: logged and alerted (line
\* 244), setMessages is not called
SaveEditFails(i, text) ==
    /\ conv.loaded
    /\ odd + Overtaken < MaxOdd
    /\ i < Len(messages)
    /\ messages[i + 1].id # NoId
    /\ lastAlert' = "editFailed"
    /\ odd' = odd + Overtaken + 1
    /\ UNCHANGED <<store, summary, conv, messages, tasks, edits, pending, nextId, sends, title, apart, sumLog>>
    /\ status' = "Ready"

\* a failed delete that returns after its alert
DeleteFails_Return(i) ==
    /\ conv.loaded
    /\ odd + Overtaken < MaxOdd
    /\ i < Len(messages)
    /\ i # 0
    /\ lastAlert' = "deleteFailed"
    /\ odd' = odd + Overtaken + 1
    /\ UNCHANGED <<store, conv, messages, summary, tasks, edits, pending, nextId, sends, title, apart, sumLog>>
    /\ status' = "Deleting..."

\* deleteMsg(i) when delete() returns an error: logged and alerted (line 256), then the
\* re-pack loop and the reload run as after a delete that succeeded
DeleteFails(i) ==
    /\ conv.loaded
    /\ odd + Overtaken < MaxOdd
    /\ i < Len(messages)
    /\ i # 0
    /\ store' = Repack(store)
    /\ conv' = ReloadedConv(summary)
    /\ messages' = fetchMessages(Repack(store))
    /\ lastAlert' = "deleteFailed"
    /\ odd' = odd + Overtaken + 1
    /\ UNCHANGED <<summary, tasks, edits, pending, nextId, sends, title, apart, sumLog>>
    /\ status' = "Ready"

\* saveEdit, deleteMsg or regenFrom on an index that holds no turn: return at once
NoTurn(i) ==
    /\ conv.loaded
    /\ i >= Len(messages)
    /\ lastAlert' = "none"
    /\ UNCHANGED <<store, summary, conv, messages, tasks, pending, nextId, sends, title, apart, edits, odd,
                   sumLog>>
    /\ status' = status

----------------------------------------------------------------------------
(* regenFrom *)

\* regenFrom: the index after which the tail is cut
CutAt(ms, i) == IF ms[i + 1].role = "assistant" THEN i - 1 ELSE i

\* regenFrom(i) up to the await of callAssistant; i is 0-based
RegenStart(i) ==
    /\ conv.loaded
    /\ edits < MaxEdits
    /\ MayStep
    /\ \E s \in Slots : tasks[s].pc = "idle"
    /\ i < Len(messages)
    /\ LET cutAt == CutAt(messages, i) IN
       IF cutAt < 0
       THEN /\ lastAlert' = "cannotRegenerate"
            /\ UNCHANGED <<store, tasks>>
       ELSE /\ store' = DeleteAll(store, Slice(messages, cutAt + 1, Len(messages)))
            /\ tasks' = [tasks EXCEPT ![FreeSlot] =
                            [pc |-> "awaitRegen", msgs |-> messages, rs |-> conv.running_summary,
                             content |-> <<>>, at |-> cutAt,
                             payload |-> WithSummary(conv.running_summary,
                                                     Pairs(Slice(messages, 0, cutAt + 1))),
                             middle |-> <<>>]]
            /\ lastAlert' = "none"
    /\ edits' = edits + 1
    /\ odd' = odd + Overtaken
    /\ UNCHANGED <<summary, conv, messages, pending, nextId, sends, title, apart, sumLog>>
    /\ status' = IF CutAt(messages, i) < 0 THEN status ELSE "Regenerating..."

\* callAssistant resolved: insert the new assistant turn at cutAt + 1, then reload
RegenReplyOk(s, reply) ==
    /\ tasks[s].pc = "awaitRegen"
    /\ MayStep
    /\ reply = <<>> => odd + Overtaken < MaxOdd
    /\ LET t == tasks[s]
           content == IF reply = <<>> THEN NoContent ELSE reply
           inserted == Append(store, Row(nextId, "assistant", content, t.at + 1))
       IN /\ store' = inserted
          /\ messages' = fetchMessages(inserted)
    /\ conv' = ReloadedConv(summary)
    /\ tasks' = [tasks EXCEPT ![s] = IdleTask]
    /\ nextId' = nextId + 1
    /\ odd' = odd + Overtaken + (IF reply = <<>> THEN 1 ELSE 0)
    /\ lastAlert' = "none"
    /\ UNCHANGED <<summary, pending, sends, title, apart, edits, sumLog>>
    /\ status' = "Ready"

\* callAssistant threw: alert, then reload
RegenReplyFail(s) ==
    /\ tasks[s].pc = "awaitRegen"
    /\ odd + Overtaken < MaxOdd
    /\ conv' = ReloadedConv(summary)
    /\ messages' = fetchMessages(store)
    /\ tasks' = [tasks EXCEPT ![s] = IdleTask]
    /\ odd' = odd + Overtaken + 1
    /\ lastAlert' = "regenError"
    /\ UNCHANGED <<store, summary, pending, nextId, sends, title, apart, edits, sumLog>>
    /\ status' = "Ready"

\* indexes a handler may be called with: every turn of the sequence and one past the
\* end.  MessageItem renders no Edit, Regen or Delete button on a system turn; the
\* handlers themselves take any index, and the model calls them with any.
Indexes == 0..Len(messages)

----------------------------------------------------------------------------
Next ==
    \/ Load
    \/ \E text \in Texts : Idle /\ SendStart(text)
    \/ \E text \in Texts : Idle /\ SendRejected(text)
    \/ \E s \in Slots, reply \in Replies : SendReplyOk(s, reply)
    \/ \E s \in Slots : SendReplyFail(s)
    \/ \E s \in Slots : SummaryHttpError(s)
    \/ \E s \in Slots : SummaryThrow(s)
    \/ \E s \in Slots, summ \in Summaries : SummaryOk(s, summ)
    \/ \E s \in Slots : SummaryMissing(s)
    \/ UserInsertLands
    \/ Idle /\ Reload
    \/ \E i \in Indexes, text \in EditTexts : Idle /\ SaveEdit(i, text)
    \/ \E i \in Indexes : Idle /\ DeleteMsg(i)
    \/ \E i \in Indexes : Idle /\ NoTurn(i)
    \/ \E i \in Indexes : Idle /\ RegenStart(i)
    \/ \E s \in Slots, reply \in Replies : RegenReplyOk(s, reply)
    \/ \E s \in Slots : RegenReplyFail(s)

Spec == Init /\ [][Next]_vars

\* Dispatch and compaction alone, one send at a time: the operations that reach the
\* Compactor, explored without the edit operations.
NextSend ==
    \/ Load
    \/ \E text \in Texts : Idle /\ SendStart(text)
    \/ \E text \in Texts : Idle /\ SendRejected(text)
    \/ \E s \in Slots, reply \in Replies : SendReplyOk(s, reply)
    \/ \E s \in Slots : SendReplyFail(s)
    \/ \E s \in Slots : SummaryHttpError(s)
    \/ \E s \in Slots : SummaryThrow(s)
    \/ \E s \in Slots, summ \in Summaries : SummaryOk(s, summ)
    \/ \E s \in Slots : SummaryMissing(s)
    \/ UserInsertLands

SpecSend == Init /\ [][NextSend]_vars

\* Two sends may be in flight together: Composer.submit calls onSend without awaiting it
\* and stays enabled, and send holds no in-flight guard.  With at most MaxConcSends
\* dispatches the captured sequence stays below SUMMARIZE_AFTER, so no send of this
\* specification awaits the summarizer.
NextConc ==
    \/ Load
    \/ \E text \in Texts : sends < MaxConcSends /\ SendStart(text)
    \/ \E s \in Slots, reply \in Replies : SendReplyOk(s, reply)
    \/ \E s \in Slots : SendReplyFail(s)
    \/ UserInsertLands

SpecConc == Init /\ [][NextConc]_vars

\* The edit operations on a short conversation, new or read back from the store: at most
\* MaxEditSends dispatches, so the sequence stays below SUMMARIZE_AFTER and no send of
\* this specification awaits the summarizer.
NextEdit ==
    \/ Load
    \/ \E text \in Texts : Idle /\ sends < MaxEditSends /\ SendStart(text)
    \/ \E s \in Slots, reply \in Replies : SendReplyOk(s, reply)
    \/ \E s \in Slots : SendReplyFail(s)
    \/ UserInsertLands
    \/ Idle /\ Reload
    \/ \E i \in Indexes, text \in EditTexts : Idle /\ SaveEdit(i, text)
    \/ \E i \in Indexes : Idle /\ DeleteMsg(i)
    \/ \E i \in Indexes : Idle /\ NoTurn(i)
    \/ \E i \in Indexes : Idle /\ RegenStart(i)
    \/ \E s \in Slots, reply \in Replies : RegenReplyOk(s, reply)
    \/ \E s \in Slots : RegenReplyFail(s)

SpecEdit == InitEdit /\ [][NextEdit]_vars

\* The edit operations on a short conversation when the update of saveEdit and the delete
\* of deleteMsg may return an error.
NextEditFail ==
    \/ Load
    \/ \E text \in Texts : Idle /\ sends < MaxEditSends /\ SendStart(text)
    \/ \E s \in Slots, reply \in Replies : SendReplyOk(s, reply)
    \/ \E s \in Slots : SendReplyFail(s)
    \/ UserInsertLands
    \/ Idle /\ Reload
    \/ \E i \in Indexes, text \in EditTexts : Idle /\ SaveEdit(i, text)
    \/ \E i \in Indexes, text \in EditTexts : Idle /\ SaveEditFails(i, text)
    \/ \E i \in Indexes : Idle /\ DeleteMsg(i)
    \/ \E i \in Indexes : Idle /\ DeleteFails(i)
    \/ \E i \in Indexes : Idle /\ NoTurn(i)
    \/ \E i \in Indexes : Idle /\ RegenStart(i)
    \/ \E s \in Slots, reply \in Replies : RegenReplyOk(s, reply)
    \/ \E s \in Slots : RegenReplyFail(s)

SpecEditFail == InitEdit /\ [][NextEditFail]_vars

\* The operations on a short conversation when calls to the store may fail: the first
\* fetchMessages of the load effect and the inserts of a user turn and of an assistant turn.
NextFail ==
    \/ Load
    \/ LoadFetchFails
    \/ \E text \in Texts : Idle /\ sends < MaxEditSends /\ SendStart(text)
    \/ \E s \in Slots, reply \in Replies : SendReplyOk(s, reply)
    \/ \E s \in Slots : SendReplyFail(s)
    \/ UserInsertLands
    \/ UserInsertFails
    \/ \E s \in Slots, reply \in Replies : AssistantInsertFails(s, reply)
    \/ Idle /\ Reload
    \/ \E i \in Indexes, text \in EditTexts : Idle /\ SaveEdit(i, text)
    \/ \E i \in Indexes : Idle /\ DeleteMsg(i)
    \/ \E i \in Indexes : Idle /\ NoTurn(i)
    \/ \E i \in Indexes : Idle /\ RegenStart(i)
    \/ \E s \in Slots, reply \in Replies : RegenReplyOk(s, reply)
    \/ \E s \in Slots : RegenReplyFail(s)

SpecFail == InitEdit /\ [][NextFail]_vars

\* Every operation on a long conversation read back from the store: the first dispatch
\* captures SUMMARIZE_AFTER + 1 turns, all with an id, and reaches the Compactor.
NextLong ==
    \/ Load
    \/ \E text \in Texts : Idle /\ sends < MaxLongSends /\ SendStart(text)
    \/ \E text \in Texts : Idle /\ SendRejected(text)
    \/ \E s \in Slots, reply \in Replies : SendReplyOk(s, reply)
    \/ \E s \in Slots : SendReplyFail(s)
    \/ \E s \in Slots : SummaryHttpError(s)
    \/ \E s \in Slots : SummaryThrow(s)
    \/ \E s \in Slots, summ \in Summaries : SummaryOk(s, summ)
    \/ \E s \in Slots : SummaryMissing(s)
    \/ UserInsertLands
    \/ Idle /\ Reload
    \/ \E i \in Indexes, text \in EditTexts : Idle /\ SaveEdit(i, text)
    \/ \E i \in Indexes : Idle /\ DeleteMsg(i)
    \/ \E i \in Indexes : Idle /\ NoTurn(i)
    \/ \E i \in Indexes : Idle /\ RegenStart(i)
    \/ \E s \in Slots, reply \in Replies : RegenReplyOk(s, reply)
    \/ \E s \in Slots : RegenReplyFail(s)

SpecLong == InitLong /\ [][NextLong]_vars

\* an inference or summarizer call of an in-flight handler returns: with a reply, with an
\* error status, or by throwing
Returns ==
    \/ \E s \in Slots, reply \in Replies : SendReplyOk(s, reply)
    \/ \E s \in Slots : SendReplyFail(s)
    \/ \E s \in Slots : SummaryHttpError(s)
    \/ \E s \in Slots : SummaryThrow(s)
    \/ \E s \in Slots, summ \in Summaries : SummaryOk(s, summ)
    \/ \E s \in Slots : SummaryMissing(s)
    \/ \E s \in Slots, reply \in Replies : RegenReplyOk(s, reply)
    \/ \E s \in Slots : RegenReplyFail(s)

\* the turns the edit operations of NextLive are called on: the system turn, the two turns
\* after it, the last turn, and the index past the end
LiveIndexes == {0, 1, 2, Len(messages) - 1, Len(messages)} \cap Indexes

NextLive ==
    \/ Load
    \/ \E text \in Texts : Idle /\ sends < MaxLongSends /\ SendStart(text)
    \/ \E text \in Texts : Idle /\ SendRejected(text)
    \/ Returns
    \/ UserInsertLands
    \/ Idle /\ Reload
    \/ \E i \in LiveIndexes, text \in EditTexts : Idle /\ SaveEdit(i, text)
    \/ \E i \in LiveIndexes : Idle /\ DeleteMsg(i)
    \/ \E i \in LiveIndexes : Idle /\ NoTurn(i)
    \/ \E i \in LiveIndexes : Idle /\ RegenStart(i)

\* The operations on the stored 21-turn conversation when every external call eventually
\* returns: the store answers the un-awaited insert, the endpoints answer their fetch.
SpecLive == InitLong /\ [][NextLive]_vars /\ WF_vars(Returns) /\ WF_vars(UserInsertLands)

\* Dispatch and compaction alone on the stored 21-turn conversation, whose turns all
\* carry their ids: the first dispatch is compacted and the window is deleted.
NextLongSend ==
    \/ Load
    \/ \E text \in Texts : Idle /\ sends < MaxLongDispatches /\ SendStart(text)
    \/ \E text \in Texts : Idle /\ SendRejected(text)
    \/ \E s \in Slots, reply \in Replies : SendReplyOk(s, reply)
    \/ \E s \in Slots : SendReplyFail(s)
    \/ \E s \in Slots : SummaryHttpError(s)
    \/ \E s \in Slots : SummaryThrow(s)
    \/ \E s \in Slots, summ \in Summaries : SummaryOk(s, summ)
    \/ \E s \in Slots : SummaryMissing(s)
    \/ UserInsertLands

SpecLongSend == InitLong /\ [][NextLongSend]_vars

\* The operations on the stored 21-turn conversation when the inserts of send may fail.
NextLongFail ==
    \/ Load
    \/ \E text \in Texts : Idle /\ sends < MaxLongSends /\ SendStart(text)
    \/ \E s \in Slots, reply \in Replies : SendReplyOk(s, reply)
    \/ \E s \in Slots, reply \in Replies : AssistantInsertFails(s, reply)
    \/ \E s \in Slots : SendReplyFail(s)
    \/ \E s \in Slots : SummaryHttpError(s)
    \/ \E s \in Slots : SummaryThrow(s)
    \/ \E s \in Slots, summ \in Summaries : SummaryOk(s, summ)
    \/ \E s \in Slots : SummaryMissing(s)
    \/ UserInsertLands
    \/ UserInsertFails
    \/ Idle /\ Reload
    \/ \E i \in Indexes, text \in EditTexts : Idle /\ SaveEdit(i, text)
    \/ \E i \in Indexes : Idle /\ DeleteMsg(i)
    \/ \E i \in Indexes : Idle /\ NoTurn(i)
    \/ \E i \in Indexes : Idle /\ RegenStart(i)
    \/ \E s \in Slots, reply \in Replies : RegenReplyOk(s, reply)
    \/ \E s \in Slots : RegenReplyFail(s)

SpecLongFail == InitLong /\ [][NextLongFail]_vars

----------------------------------------------------------------------------
(* The chat endpoint (src/unnamed/part_005) and callAssistant *)

\* String.prototype.slice(0, 600) in callAssistant and in the catch block of send
DETAIL_MAX == 600

\* a text of n characters
Chars(n) == [k \in 1..n |-> "x"]

\* request bodies: not JSON, the JSON null, an object without messages, an object whose
\* messages is a string, an object whose messages is an array
Bodies == {"notJson", "null", "noMessages", "messagesString", "messagesArray"}

\* what the upstream API does with the forwarded request: it answers with a status and a
\* text (for a 2xx, a text that parses as JSON or not), or the fetch throws
Upstreams ==
    {[kind |-> "answers", status |-> st, text |-> Chars(n), json |-> FALSE] :
        st \in {400, 429, 500}, n \in {0, 1, 593, 594, 600, 601}}
    \cup {[kind |-> "answers", status |-> 200, text |-> Chars(2), json |-> j] : j \in BOOLEAN}
    \cup {[kind |-> "throws", status |-> 0, text |-> <<>>, json |-> FALSE]}

\* a request, the environment of the function and the upstream behaviour it would meet
Events ==
    [httpMethod : {"POST", "GET"}, key : BOOLEAN, body : Bodies, upstream : Upstreams]

\* Response.ok
Ok(statusCode) == statusCode \in 200..299

\* JSON.parse(event.body || '{}') followed by the destructuring of the result: throws on
\* text that is not JSON and on null
BodyThrows(body) == body \in {"notJson", "null"}

\* a handler that looks for the API key before it looks at the method
chatHandler_KeyFirst(ev) ==
    IF ~ev.key
    THEN [statusCode |-> 500, body |-> <<"Server missing MISTRAL_API_KEY">>, called |-> FALSE]
    ELSE IF ev.httpMethod # "POST"
    THEN [statusCode |-> 405, body |-> <<"Method Not Allowed">>, called |-> FALSE]
    ELSE [statusCode |-> 400, body |-> <<"messages must be an array">>, called |-> FALSE]

\* handler of the chat function: statusCode and body of its answer, and whether it called
\* the upstream API
chatHandler(ev) ==
    IF ev.httpMethod # "POST"
    THEN [statusCode |-> 405, body |-> <<"Method Not Allowed">>, called |-> FALSE]
    ELSE IF ~ev.key
    THEN [statusCode |-> 500, body |-> <<"Server missing MISTRAL_API_KEY">>, called |-> FALSE]
    ELSE IF BodyThrows(ev.body)
    THEN [statusCode |-> 500, body |-> <<"String(e.message)">>, called |-> FALSE]
    ELSE IF ev.body # "messagesArray"
    THEN [statusCode |-> 400, body |-> <<"messages must be an array">>, called |-> FALSE]
    ELSE IF ev.upstream.kind = "throws"
    THEN [statusCode |-> 500, body |-> <<"String(e.message)">>, called |-> TRUE]
    ELSE IF ~Ok(ev.upstream.status)
    THEN [statusCode |-> ev.upstream.status, body |-> ev.upstream.text, called |-> TRUE]
    ELSE IF ~ev.upstream.json
    THEN [statusCode |-> 500, body |-> <<"String(e.message)">>, called |-> TRUE]
    ELSE [statusCode |-> 200, body |-> <<"{content, usage}">>, called |-> TRUE]

\* String(e) of an Error: the name alone when the message is empty
StringOfError(message) ==
    IF message = <<>> THEN <<"E", "r", "r", "o", "r">>
    ELSE <<"E", "r", "r", "o", "r", ":", " ">> \o message

\* callAssistant on the answer, and the catch block of send when it throws: the message
\* of the Error thrown and the detail the alert shows after 'Assistant error:'
callAssistant(answer) ==
    IF ~Ok(answer.statusCode)
    THEN [failed |-> TRUE,
          thrown |-> Slice(answer.body, 0, DETAIL_MAX),
          alert |-> Slice(StringOfError(Slice(answer.body, 0, DETAIL_MAX)), 0, DETAIL_MAX)]
    ELSE [failed |-> FALSE, thrown |-> <<>>, alert |-> <<>>]

\* no answer yet
NoResponse == [phase |-> "none"]

\* a request is about to reach the chat function
InitChat ==
    /\ store = <<>>
    /\ summary = <<>>
    /\ conv = [loaded |-> FALSE, running_summary |-> <<>>]
    /\ messages = <<>>
    /\ tasks = [s \in Slots |-> IdleTask]
    /\ pending = <<>>
    /\ nextId = 1
    /\ sends = 0
    /\ edits = 0
    /\ odd = 0
    /\ sumLog = <<>>
    /\ lastAlert = "none"
    /\ title = <<>>
    /\ status = "Ready"
    /\ conversationId = "A"
    /\ loads = <<>>
    /\ event \in Events
    /\ response = NoResponse

\* the function answers the request
EndpointAnswers ==
    /\ response.phase = "none"
    /\ response' = [phase |-> "answered", answer |-> chatHandler(event)]
    /\ UNCHANGED <<store, summary, conv, messages, tasks, pending, nextId, sends, edits, odd,
                   sumLog, lastAlert, title, status, conversationId, loads, event>>

\* callAssistant reads the answer; on a non-2xx status it throws and send alerts
ClientReads ==
    /\ response.phase = "answered"
    /\ response' = [phase |-> "read", answer |-> response.answer,
                    client |-> callAssistant(response.answer)]
    /\ UNCHANGED <<store, summary, conv, messages, tasks, pending, nextId, sends, edits, odd,
                   sumLog, lastAlert, title, status, conversationId, loads, event>>

NextChat ==
    \/ EndpointAnswers
    \/ ClientReads

SpecChat == InitChat /\ [][NextChat]_vars

----------------------------------------------------------------------------
(* Switching the open conversation (src/src/App.tsx, lines 59-63)           *)
(*                                                                          *)
(* App renders <Chat conversationId={conversationId} /> without a key, so   *)
(* one Chat instance lives through a change of the prop and keeps its conv  *)
(* and messages until a load sets them.  In the specification of this       *)
(* section the store holds the rows of two conversations, every row and     *)
(* every in-memory turn carries its conversation_id, and conv carries its   *)
(* id; the load effect and reload advance one await at a time.              *)

ConvIds == {"A", "B"}

\* conversations.running_summary of the two conversations
StoredRunningSummary(c) == IF c = "A" THEN <<"s">> ELSE <<>>

RowIn(c, id, role, content, idx) ==
    [id |-> id, conversation_id |-> c, role |-> role, content |-> content, idx |-> idx]

\* fetchMessages(conversation_id): the rows of that conversation ordered by created_at
fetchMessagesOf(st, c) ==
    LET rows == SelectSeq(st, LAMBDA r : r.conversation_id = c)
    IN [k \in 1..Len(rows) |->
           [id |-> rows[k].id, tag |-> rows[k].id, conversation_id |-> c,
            role |-> rows[k].role, content |-> rows[k].content, idx |-> rows[k].idx]]

\* the sequence without its k-th element
RemoveAt(sq, k) == SubSeq(sq, 1, k - 1) \o SubSeq(sq, k + 1, Len(sq))

\* Chat mounts with conversationId "A", a stored conversation of three turns, and its load
\* effect has issued the select of the conversation row; conversation "B" has no turn yet
InitSwitch ==
    /\ store = <<RowIn("A", 1, "system", SeedContent, 0),
                 RowIn("A", 2, "user", <<"h">>, 1),
                 RowIn("A", 3, "assistant", <<"r">>, 2)>>
    /\ summary = StoredRunningSummary("A")
    /\ conv = [loaded |-> FALSE, id |-> "none", running_summary |-> <<>>]
    /\ messages = <<>>
    /\ tasks = [s \in Slots |-> IdleTask]
    /\ pending = <<>>
    /\ nextId = 4
    /\ sends = 0
    /\ edits = 0
    /\ odd = 0
    /\ sumLog = <<>>
    /\ lastAlert = "none"
    /\ title = <<>>
    /\ status = "Loading conversation..."
    /\ conversationId = "A"
    /\ loads = <<[kind |-> "load", cid |-> "A", pc |-> "awaitConv"]>>
    /\ event = <<>>
    /\ response = <<>>

\* Conversations.onOpen: App sets conversationId and the load effect of Chat runs for it
Open(c) ==
    /\ c # conversationId
    /\ edits < MaxSwitches
    /\ conversationId' = c
    /\ loads' = Append(loads, [kind |-> "load", cid |-> c, pc |-> "awaitConv"])
    /\ status' = "Loading conversation..."
    /\ edits' = edits + 1
    /\ lastAlert' = "none"
    /\ UNCHANGED <<store, summary, conv, messages, tasks, pending, nextId, sends, odd, sumLog,
                   title, event, response>>

\* reload as wired to Settings.onChanged, up to its first await
ReloadStart ==
    /\ conv.loaded
    /\ edits < MaxSwitches
    /\ loads' = Append(loads, [kind |-> "reload", cid |-> conversationId, pc |-> "awaitConv"])
    /\ status' = "Reloading..."
    /\ edits' = edits + 1
    /\ lastAlert' = "none"
    /\ UNCHANGED <<store, summary, conv, messages, tasks, pending, nextId, sends, odd, sumLog,
                   title, conversationId, event, response>>

\* the select of the conversation row resolves: setConv, then fetchMessages is issued
ConvArrives(k) ==
    /\ loads[k].pc = "awaitConv"
    /\ conv' = [loaded |-> TRUE, id |-> loads[k].cid,
                running_summary |-> StoredRunningSummary(loads[k].cid)]
    /\ loads' = [loads EXCEPT ![k].pc = "awaitMessages"]
    /\ UNCHANGED <<store, summary, messages, tasks, pending, nextId, sends, edits, odd, sumLog,
                   lastAlert, title, status, conversationId, event, response>>

\* fetchMessages resolves: the load effect seeds an empty conversation, otherwise
\* setMessages and setStatus('Ready')
MessagesArrive(k) ==
    /\ loads[k].pc = "awaitMessages"
    /\ LET msgs == fetchMessagesOf(store, loads[k].cid) IN
       IF loads[k].kind = "load" /\ msgs = <<>>
       THEN /\ loads' = [loads EXCEPT ![k].pc = "awaitSeed"]
            /\ UNCHANGED <<messages, status>>
       ELSE /\ messages' = msgs
            /\ loads' = RemoveAt(loads, k)
            /\ status' = "Ready"
    /\ UNCHANGED <<store, summary, conv, tasks, pending, nextId, sends, edits, odd, sumLog,
                   lastAlert, title, conversationId, event, response>>

\* the insert of the system turn resolves, then fetchMessages is issued again
SeedArrives(k) ==
    /\ loads[k].pc = "awaitSeed"
    /\ store' = Append(store, RowIn(loads[k].cid, nextId, "system", SeedContent, 0))
    /\ nextId' = nextId + 1
    /\ loads' = [loads EXCEPT ![k].pc = "awaitMessagesAgain"]
    /\ UNCHANGED <<summary, conv, messages, tasks, pending, sends, edits, odd, sumLog,
                   lastAlert, title, status, conversationId, event, response>>

\* the second fetchMessages of the load effect resolves
MessagesArriveAgain(k) ==
    /\ loads[k].pc = "awaitMessagesAgain"
    /\ messages' = fetchMessagesOf(store, loads[k].cid)
    /\ loads' = RemoveAt(loads, k)
    /\ status' = "Ready"
    /\ UNCHANGED <<store, summary, conv, tasks, pending, nextId, sends, edits, odd, sumLog,
                   lastAlert, title, conversationId, event, response>>

\* send up to the await of callAssistant: the turns are written under conv.id, the
\* payload is built from messages, and the reload of its catch block would read the
\* conversationId of this render
SwitchSendStart(text) ==
    /\ conv.loaded
    /\ Trim(text) # <<>>
    /\ sends < MaxSwitchSends
    /\ LET content == Trim(text)
           userIdx == Len(messages)
           userMsg == [id |-> NoId, tag |-> nextId, conversation_id |-> conv.id,
                       role |-> "user", content |-> content, idx |-> userIdx]
       IN /\ messages' = Append(messages, userMsg)
          /\ pending' = Append(pending, RowIn(conv.id, nextId, "user", content, userIdx))
          /\ tasks' = [tasks EXCEPT ![FreeSlot] =
                          [pc |-> "awaitReply", msgs |-> messages,
                           rs |-> conv.running_summary, content |-> content, at |-> userIdx,
                           payload |-> WithSummary(conv.running_summary,
                                                   Pairs(Append(messages, userMsg))),
                           middle |-> <<>>, cid |-> conv.id, prop |-> conversationId]]
    /\ nextId' = nextId + 1
    /\ sends' = sends + 1
    /\ status' = "Sending..."
    /\ lastAlert' = "none"
    /\ UNCHANGED <<store, summary, conv, edits, odd, sumLog, title, apart>>

\* callAssistant resolved: the assistant turn is appended and inserted under the conv.id
\* the handler captured; the captured sequence is short, so maybeSummarize returns
SwitchReplyOk(s, reply) ==
    /\ tasks[s].pc = "awaitReply"
    /\ LET t == tasks[s]
           content == IF reply = <<>> THEN NoContent ELSE reply
       IN /\ messages' = Append(messages, [id |-> NoId, tag |-> nextId,
                                           conversation_id |-> t.cid, role |-> "assistant",
                                           content |-> content, idx |-> t.at + 1])
          /\ store' = Append(store, RowIn(t.cid, nextId, "assistant", content, t.at + 1))
    /\ tasks' = [tasks EXCEPT ![s] = IdleTask]
    /\ nextId' = nextId + 1
    /\ status' = "Ready"
    /\ lastAlert' = "none"
    /\ UNCHANGED <<summary, conv, pending, sends, edits, odd, sumLog, title, apart>>

\* callAssistant threw: the catch block alerts and calls the reload of the render that
\* created the handler, which reads that render's conversationId
SwitchReplyFail(s) ==
    /\ tasks[s].pc = "awaitReply"
    /\ loads' = Append(loads, [kind |-> "reload", cid |-> tasks[s].prop, pc |-> "awaitConv"])
    /\ tasks' = [tasks EXCEPT ![s] = IdleTask]
    /\ status' = "Reloading..."
    /\ lastAlert' = "assistantError"
    /\ UNCHANGED <<store, summary, conv, messages, pending, nextId, sends, edits, odd, sumLog,
                   title, conversationId, event, response>>

NextSwitch ==
    \/ \E c \in ConvIds : Open(c)
    \/ ReloadStart
    \/ \E k \in 1..Len(loads) : ConvArrives(k)
    \/ \E k \in 1..Len(loads) : MessagesArrive(k)
    \/ \E k \in 1..Len(loads) : SeedArrives(k)
    \/ \E k \in 1..Len(loads) : MessagesArriveAgain(k)
    \/ \E text \in Texts : SwitchSendStart(text)
    \/ \E s \in Slots, reply \in Replies : SwitchReplyOk(s, reply)
    \/ \E s \in Slots : SwitchReplyFail(s)
    \/ UserInsertLands

SpecSwitch == InitSwitch /\ [][NextSwitch]_vars

----------------------------------------------------------------------------
(* Properties *)

\* no handler is running and no issued write is still in flight
Quiescent == conv.loaded /\ Idle /\ pending = <<>>

\* the run so far is regular: no call has failed, no reply was empty and no step has
\* overtaken an un-awaited insert
Regular == odd = 0

\* the stored idx values are exactly 0..N-1 and idx 0 is the system turn
DenseIdx(st) ==
    /\ {st[k].idx : k \in 1..Len(st)} = 0..(Len(st) - 1)
    /\ \A j, k \in 1..Len(st) : st[j].idx = st[k].idx => j = k
    /\ \A k \in 1..Len(st) : st[k].idx = 0 => st[k].role = "system"

\* C1: once every operation issued so far has completed, the stored idx values are
\* exactly 0..N-1, without gap or duplicate, and the turn at idx 0 is the system turn
\* (stated for regular runs: every call succeeds).
C1_DenseAfterOperations == (Quiescent /\ Regular) => DenseIdx(store)

\* every turn a send has written or is writing: the stored rows and the inserts in flight
Written == Range(store) \cup Range(pending)

\* C2: two dispatches against the conversation never interleave (at most one send is
\* between its user-turn append and the end of its compaction), so no two turns written
\* by sends carry the same idx.
C2_DispatchesNeverInterleave ==
    /\ Cardinality({s \in Slots : tasks[s].pc # "idle"}) <= 1
    /\ \A a, b \in Written : a.idx = b.idx => a = b

\* the step of a regular run in which send s gets its reply and appends the assistant turn
DispatchSucceeds(s) ==
    /\ tasks[s].pc = "awaitReply"
    /\ tasks'[s].pc # "awaitReply"
    /\ lastAlert' = "none"
    /\ Regular'

\* the step in which the compaction of send s ends without a summary having been returned
CompactionFails(s) ==
    /\ tasks[s].pc = "awaitSummary"
    /\ tasks'[s].pc = "idle"
    /\ Len(sumLog') = Len(sumLog)

\* the step in which the compaction of send s ends with a returned summary
CompactionSucceeds(s) ==
    /\ tasks[s].pc = "awaitSummary"
    /\ Len(sumLog') = Len(sumLog) + 1

IdxOf(ms) == {ms[k].idx : k \in 1..Len(ms)}

\* C3: when a successful dispatch leaves a 21-turn sequence, the Compactor runs on it and
\* compacts the 9 turns 1..9, and its success leaves the turns reindexed 0..10.
C3_CompactsAtTwentyOne ==
    [][\A s \in Slots :
         /\ (DispatchSucceeds(s) /\ Len(messages') = SUMMARIZE_AFTER + 1)
               => /\ tasks'[s].pc = "awaitSummary"
                  /\ IdxOf(tasks'[s].middle) = 1..9
         /\ (CompactionSucceeds(s) /\ Len(messages) = SUMMARIZE_AFTER + 1)
               => IdxOf(store') = 0..10]_vars

\* C4: the window of every compaction is the turns with idx in
\* [1, max(len - KEEP_RECENT, 1)), len being the length of the sequence when the
\* Compactor is invoked, the two turns the dispatch appended included: the system turn
\* is outside it and exactly the KEEP_RECENT most recent turns are kept.
C4_WindowOfCurrentSequence ==
    \A s \in Slots : (tasks[s].pc = "awaitSummary" /\ Regular) =>
        /\ IdxOf(tasks[s].middle) = 1..(Max(Len(messages) - KEEP_RECENT, 1) - 1)
        /\ 0 \notin IdxOf(tasks[s].middle)
        /\ Len(messages) - 1 - Len(tasks[s].middle) = KEEP_RECENT

\* C5: a dispatch that leaves SUMMARIZE_AFTER turns or fewer issues no summarizer call
\* and leaves the stored sequence and running_summary to the dispatch alone; a
\* successful dispatch that leaves more than SUMMARIZE_AFTER turns issues one.
C5_SummarizerCallIffLong ==
    [][\A s \in Slots : DispatchSucceeds(s) =>
         /\ Len(messages') <= SUMMARIZE_AFTER
               => /\ tasks'[s].pc = "idle"
                  /\ summary' = summary
                  /\ Len(store') = Len(store) + 1
         /\ Len(messages') > SUMMARIZE_AFTER => tasks'[s].pc = "awaitSummary"]_vars

\* C6: every turn placed in the transcript of a successful compaction is gone from the
\* store afterwards, whether or not its in-memory copy carried an id, and no turn is in
\* the transcripts of two compactions.
C6_SummarizedTurnsDeleted ==
    Regular =>
    /\ \A k \in 1..Len(sumLog) : \A r \in Range(store) : r.id \notin sumLog[k]
    /\ \A j, k \in 1..Len(sumLog) : j # k => sumLog[j] \cap sumLog[k] = {}

\* C7: a compaction whose summarizer call fails (non-2xx, network error, malformed
\* body) ends with the stored sequence and running_summary as they were.
C7_FailedCompactionTouchesNothing ==
    [][\A s \in Slots : CompactionFails(s) => store' = store /\ summary' = summary]_vars

\* C8: a compaction failure of any kind is swallowed: no assistant error is reported
\* and the assistant turn the dispatch appended stays in the store.
C8_CompactionFailureSwallowed ==
    [][\A s \in Slots : CompactionFails(s) =>
         /\ lastAlert' = "none"
         /\ \A r \in Range(store) :
               (r.role = "assistant" /\ r.idx = tasks[s].at + 1)
                  => \E q \in Range(store') : q.id = r.id]_vars

GrownBy(prev, x) == IF Trim(prev) # <<>> THEN Trim(prev) \o <<"\n", "\n">> \o x ELSE x

Turns(ms) == [k \in 1..Len(ms) |-> [role |-> ms[k].role, content |-> ms[k].content, idx |-> ms[k].idx]]

\* the step of a regular run in which regenFrom(i) starts on an assistant turn that
\* follows a user turn
RegenFromAssistant(s, i) ==
    /\ Regular'
    /\ tasks[s].pc = "idle"
    /\ tasks'[s].pc = "awaitRegen"
    /\ tasks'[s].at = i - 1
    /\ i >= 1 /\ i < Len(messages)
    /\ messages[i + 1].role = "assistant"
    /\ messages[i].role = "user"

\* the step in which such a regeneration gets its reply
RegenReplySucceeds(s, i) ==
    /\ Regular'
    /\ tasks[s].pc = "awaitRegen"
    /\ tasks'[s].pc = "idle"
    /\ lastAlert' = "none"
    /\ tasks[s].at = i - 1
    /\ i >= 1 /\ i < Len(tasks[s].msgs)
    /\ tasks[s].msgs[i + 1].role = "assistant"
    /\ tasks[s].msgs[i].role = "user"

\* C10: regenerating from an assistant turn at index i that follows its user turn
\* truncates the stored sequence to the turns 0..i-1, sends the kept turns as the payload
\* of the inference call, and on success leaves the stored sequence equal to the kept
\* turns followed by one new assistant turn at idx i.
C10_RegenerateFromAssistant ==
    [][\A s \in Slots : \A i \in 0..Len(messages) :
         /\ RegenFromAssistant(s, i) =>
               /\ Turns(store') = Turns(SubSeq(messages, 1, i))
               /\ LET p == tasks'[s].payload
                  IN /\ Len(p) \in {i, i + 1}
                     /\ SubSeq(p, Len(p) - i + 1, Len(p)) = Pairs(SubSeq(messages, 1, i))
         /\ RegenReplySucceeds(s, i) =>
               /\ Len(store') = i + 1
               /\ Turns(SubSeq(store', 1, i)) = Turns(SubSeq(tasks[s].msgs, 1, i))
               /\ store'[i + 1].role = "assistant"
               /\ store'[i + 1].idx = i]_vars

----------------------------------------------------------------------------
(* Regeneration, deletion and re-pack *)

\* the turns of the captured sequence positioned after cutAt
OldTail(t) == Tags(Slice(t.msgs, t.at + 1, Len(t.msgs)))

\* the step of a regular run in which regenFrom cuts the tail and calls the assistant
RegenCuts(s) ==
    /\ tasks[s].pc = "idle"
    /\ tasks'[s].pc = "awaitRegen"
    /\ Regular'

\* the step of a regular run in which a regeneration gets its reply and inserts it
RegenInserts(s) ==
    /\ tasks[s].pc = "awaitRegen"
    /\ tasks'[s].pc = "idle"
    /\ lastAlert' = "none"
    /\ Regular'

\* C11: regenFrom deletes from the store every turn positioned after cutAt, with or
\* without an id in memory, before the reply is inserted: once the tail is cut the store
\* holds no turn of the old tail, and after the insert exactly one turn has idx cutAt+1.
C11_RegenDeletesWholeTail ==
    [][\A s \in Slots :
         /\ RegenCuts(s) => \A r \in Range(store') : r.id \notin OldTail(tasks'[s])
         /\ RegenInserts(s) =>
               /\ \A r \in Range(store') : r.id \notin OldTail(tasks[s])
               /\ Cardinality({k \in 1..Len(store') : store'[k].idx = tasks[s].at + 1}) = 1]_vars

\* C12: regenFrom(0) on a sequence that holds the system turn alone fails with the
\* cannot-regenerate alert: no store delete, no inference call and no insert follow, and
\* the stored and the in-memory sequence stay as they were.
C12_RegenOnSystemAloneFails ==
    [][(Len(messages) = 1 /\ messages[1].role = "system" /\ Idle /\ RegenStart(0)) =>
          /\ lastAlert' = "cannotRegenerate"
          /\ store' = store
          /\ messages' = messages
          /\ \A s \in Slots : tasks'[s].pc = "idle"]_vars

\* the step in which the inference call of a regeneration fails, in a run regular so far
RegenFails(s) ==
    /\ tasks[s].pc = "awaitRegen"
    /\ tasks'[s].pc = "idle"
    /\ Len(store') = Len(store)
    /\ Regular

\* C13: when the inference call of regenFrom fails the error is reported, no turn is
\* inserted, the store holds exactly the turns 0..cutAt of the captured sequence, and
\* the reloaded in-memory sequence equals the stored one.
C13_RegenFailureLeavesTruncated ==
    [][\A s \in Slots : RegenFails(s) =>
          /\ lastAlert' = "regenError"
          /\ store' = store
          /\ Turns(store') = Turns(SubSeq(tasks[s].msgs, 1, tasks[s].at + 1))
          /\ messages' = fetchMessages(store')]_vars

\* C14: deleteMsg(0) always fails with the cannot-delete alert: it issues no store delete
\* and no index update and leaves the stored and the in-memory sequence as they were, so
\* a loaded conversation never loses its system turn.
C14_DeleteSystemForbidden ==
    /\ [](conv.loaded => \E k \in 1..Len(store) : store[k].role = "system" /\ store[k].idx = 0)
    /\ [][(Idle /\ DeleteMsg(0)) =>
             /\ lastAlert' = "cannotDeleteSystem"
             /\ store' = store
             /\ messages' = messages
             /\ tasks' = tasks]_vars

\* deleteMsg(0) was called on a conversation that holds further turns
C14_Witness ==
    /\ lastAlert = "cannotDeleteSystem"
    /\ Len(store) > 1
    /\ Len(messages) > 1

\* a sequence without its k-th element
Without(seq, k) == SubSeq(seq, 1, k - 1) \o SubSeq(seq, k + 1, Len(seq))

\* C15: in a regular run, deleteMsg(i) on an index i > 0 that holds a turn in memory,
\* with or without an id, removes exactly that turn from the store and re-packs the
\* rest: the stored sequence afterwards is the previous one minus turn i, in the same
\* order, with idx 0..N-2.
C15_DeleteRemovesThatTurn ==
    [][\A i \in 1..Len(messages) :
          (Idle /\ Regular /\ pending = <<>> /\ DeleteMsg(i)) =>
             /\ Pairs(store') = Pairs(Without(store, i + 1))
             /\ \A k \in 1..Len(store') : store'[k].idx = k - 1]_vars

\* C16: the re-pack pass is idempotent.  A pass over any reachable store writes exactly
\* the rows whose position in the reloaded list differs from their stored idx, a second
\* pass right after it writes none, and the store a deleteMsg leaves needs no write.
C16_RepackIdempotent ==
    /\ [](/\ RepackWrites(Repack(store)) = 0
          /\ Repack(Repack(store)) = Repack(store)
          /\ {k \in 1..Len(store) : Repack(store)[k] # store[k]}
                = {k \in 1..Len(store) : store[k].idx # k - 1})
    /\ [][\A i \in 1..Len(messages) : (Idle /\ DeleteMsg(i)) => RepackWrites(store') = 0]_vars

\* deleteMsg(1) on the stored conversation [system, user, assistant] has removed the user
\* turn, and the re-pack has moved the assistant turn from idx 2 to idx 1
C16_Witness ==
    store = <<Prior[1], [Prior[3] EXCEPT !.idx = 1]>>

----------------------------------------------------------------------------
(* Failed dispatch and round trip *)

\* the step in which the inference call of send s fails: the send ends with no turn added
DispatchFails(s) ==
    /\ tasks[s].pc = "awaitReply"
    /\ tasks'[s].pc = "idle"
    /\ Len(store') = Len(store)

\* the sequence holds the user turn that send t appended
HasUserTurn(ms, t) ==
    \E k \in 1..Len(ms) : ms[k].role = "user" /\ ms[k].content = t.content /\ ms[k].idx = t.at

\* what a failed dispatch leaves: the error reported, no turn added, the user turn of the
\* dispatch in the store, and the reloaded in-memory sequence equal to the stored one
FailedDispatchResynchronized(s) ==
    /\ lastAlert' = "assistantError"
    /\ store' = store
    /\ HasUserTurn(store', tasks[s])
    /\ messages' = fetchMessages(store')
    /\ HasUserTurn(messages', tasks[s])

DispatchAppends(s) ==
    /\ tasks[s].pc = "awaitReply"
    /\ tasks'[s].pc # "awaitReply"
    /\ Len(store') = Len(store) + 1

\* a reload would yield, in role and content, the optimistic view, whose last two turns
\* are the user turn and the assistant turn of send t
RoundTrip(ms, st, t) ==
    /\ Pairs(fetchMessages(st)) = Pairs(ms)
    /\ Len(ms) >= 2
    /\ ms[Len(ms) - 1].role = "user"
    /\ ms[Len(ms) - 1].content = t.content
    /\ ms[Len(ms)].role = "assistant"

----------------------------------------------------------------------------
(* Order of the loaded sequence *)

\* the idx values of a sequence never decrease along it
SortedByIdx(ms) == \A j, k \in 1..Len(ms) : j < k => ms[j].idx <= ms[k].idx

\* the step in which the load effect or a reload sets the in-memory sequence
Loads == messages' = fetchMessages(store') /\ messages' # messages

\* C19: in a regular run, whatever the store holds, the sequence that load or reload
\* returns is sorted ascending by idx.
C19_LoadSortedByIdx ==
    [][(Loads /\ Regular') => SortedByIdx(messages')]_vars

\* the idx values of a sequence strictly increase along it
IncreasingIdx(ms) == \A j, k \in 1..Len(ms) : j < k => ms[j].idx < ms[k].idx

\* C20: the store keeps the rows in the order they were inserted; once the operations of
\* a regular run have completed, ordering the rows by idx gives that same order, that
\* is, the idx values increase strictly along the rows.
C20_IdxOrderIsInsertionOrder ==
    (Quiescent /\ Regular) => IncreasingIdx(store)

----------------------------------------------------------------------------
(* Store failures, dispatch, payload, title *)

\* the idx values of the rows are contiguous from 0
Contiguous(st) == {st[k].idx : k \in 1..Len(st)} = 0..(Len(st) - 1)

\* C21: a dispatch leaves the stored idx values contiguous from 0 even when a store write
\* inside it fails: when a dispatch that started on a dense sequence completes with a
\* reply, no write of it still in flight, the stored idx values are contiguous from 0,
\* whether the insert of its user turn succeeded or failed.
C21_ContiguousDespiteFailedInsert ==
    [][\A s \in Slots :
          (DispatchAppends(s) /\ pending = <<>> /\ edits = 0 /\ DenseIdx(tasks[s].msgs))
             => Contiguous(store')]_vars

\* the step in which send s appends its user turn and issues the insert
DispatchStarts(s) ==
    /\ tasks[s].pc = "idle"
    /\ tasks'[s].pc = "awaitReply"

\* the user turn is written at idx N, N being the number of stored turns
UserTurnAtN(s) ==
    /\ pending' # <<>>
    /\ LET u == pending'[Len(pending')]
       IN /\ u.role = "user"
          /\ u.content = tasks'[s].content
          /\ u.idx = Len(store)
          /\ tasks'[s].at = Len(store)

\* the assistant turn is written at idx N + 1 with the reply, or the placeholder, as content
AssistantTurnAfter(s) ==
    LET a == store'[Len(store')]
    IN /\ a.role = "assistant"
       /\ a.idx = tasks[s].at + 1
       /\ a.content \in (Replies \ {<<>>}) \cup {NoContent}
       /\ \E u \in Range(store') \cup Range(pending') :
             u.role = "user" /\ u.idx = tasks[s].at /\ u.content = tasks[s].content

Trimmed(c) == c # <<>> /\ Head(c) \notin WS /\ c[Len(c)] \notin WS

\* C23: a dispatch with no conversation loaded, or with text that is empty once trimmed,
\* has no effect: no turn is appended in memory, no store write is issued, no inference or
\* summarizer call is made and the conversation state stays as it is.  So nothing but the
\* load acts before a conversation is loaded, and every user turn, in memory, stored or
\* being inserted, carries trimmed, non-empty text.
C23_RejectedDispatchNoEffect ==
    /\ [](/\ \A k \in 1..Len(messages) : messages[k].role = "user" => Trimmed(messages[k].content)
          /\ \A r \in Written : r.role = "user" => Trimmed(r.content))
    /\ [][(\E text \in Texts : SendRejected(text)) =>
             UNCHANGED <<store, summary, conv, messages, tasks, pending, title, sumLog>>]_vars
    /\ [][(~conv.loaded /\ ~conv'.loaded) =>
             UNCHANGED <<store, summary, messages, tasks, pending, title>>]_vars

\* send was called before a conversation was loaded: it alerted and did nothing else
C23_Witness ==
    /\ lastAlert = "noConversation"
    /\ ~conv.loaded
    /\ messages = <<>>
    /\ pending = <<>>
    /\ Idle

\* the synthetic leading system turn: present exactly when the summary is not empty
Synthetic(sm) ==
    IF sm # <<>> THEN <<[role |-> "system", content |-> SummaryHeader \o sm]>> ELSE <<>>

\* the step in which regenFrom cuts the tail and calls the assistant
RegenStarts(s) ==
    /\ tasks[s].pc = "idle"
    /\ tasks'[s].pc = "awaitRegen"

\* C24: the payload of every inference call is the role+content pairs of the kept turns
\* in sequence order (a dispatch: all current turns and the user turn just added; a
\* regeneration: the turns 0..cutAt), preceded by one synthetic system turn that holds
\* running_summary exactly when running_summary is not empty.
C24_PayloadOfInferenceCall ==
    [][\A s \in Slots :
          /\ DispatchStarts(s) =>
                /\ messages'[Len(messages')].role = "user"
                /\ SubSeq(messages', 1, Len(messages)) = messages
                /\ tasks'[s].payload = Synthetic(summary) \o Pairs(messages')
          /\ RegenStarts(s) =>
                tasks'[s].payload
                   = Synthetic(summary) \o Pairs(SubSeq(messages, 1, tasks'[s].at + 1))]_vars

\* a regeneration on a stored conversation that has a running summary is awaiting its
\* reply: the payload starts with the synthetic system turn
C24_Witness ==
    \E s \in Slots :
        /\ tasks[s].pc = "awaitRegen"
        /\ summary # <<>>
        /\ tasks[s].at >= 1
        /\ Len(tasks[s].payload) = tasks[s].at + 2
        /\ tasks[s].payload[1].content = SummaryHeader \o summary

\* the captured sequence holds no turn but system turns: the reply is the first one
FirstReply(t) == \A k \in 1..Len(t.msgs) : t.msgs[k].role = "system"

\* C25: Conversation.title is set from the user text, whitespace collapsed and cut to
\* TITLE_MAX, on the very first assistant reply of the conversation and only then: the
\* dispatch that gets the first reply stores it, no later dispatch and no failed
\* dispatch writes the title.
C25_TitleOnFirstReply ==
    /\ [][\A s \in Slots : (DispatchAppends(s) /\ FirstReply(tasks[s]) /\ title = <<>>)
                              => title' = TitleOf(tasks[s].content)]_vars
    /\ [][title' # title => /\ title = <<>>
                            /\ \E s \in Slots : DispatchAppends(s) /\ FirstReply(tasks[s])]_vars

----------------------------------------------------------------------------
(* saveEdit, the system turn, the Compactor *)

\* C26: a successful saveEdit(i, text) replaces the content of the turn at i, in the
\* store and in memory, and nothing else: idx and role of that turn, every other turn,
\* the length of the sequence and running_summary stay; saveEdit on an index that holds
\* no turn changes nothing.
C26_EditReplacesContentOnly ==
    [][\A i \in 0..Len(messages), text \in EditTexts :
          /\ (Idle /\ i < Len(messages) /\ messages[i + 1].id # NoId /\ SaveEdit(i, text)) =>
                /\ lastAlert' = "none"
                /\ Len(store') = Len(store)
                /\ store[i + 1].id = messages[i + 1].id
                /\ \A k \in 1..Len(store) :
                      store'[k] = IF k = i + 1 THEN [store[k] EXCEPT !.content = text]
                                  ELSE store[k]
                /\ Len(messages') = Len(messages)
                /\ \A k \in 1..Len(messages) :
                      messages'[k] = IF k = i + 1 THEN [messages[k] EXCEPT !.content = text]
                                     ELSE messages[k]
                /\ summary' = summary
                /\ conv' = conv
          /\ (Idle /\ NoTurn(i)) => UNCHANGED <<store, messages, summary, conv>>]_vars

\* saveEdit(2, 'e') on the stored conversation of five turns has replaced the content of
\* the assistant turn at idx 2, in the store and in memory
C26_Witness ==
    /\ Len(store) = 5
    /\ store[3] = [Prior[3] EXCEPT !.content = <<"e">>]
    /\ messages[3].content = <<"e">>
    /\ store[2] = Prior[2] /\ store[4] = Prior[4]

\* C27: saveEdit on a turn that has no id in memory reloads once; when the reloaded turn
\* at that index has an id the edit is applied to it in the store, and only when it still
\* has none is the failure alert raised.
C27_EditAppliedAfterReload ==
    [][\A i \in 0..Len(messages), text \in EditTexts :
          (/\ Idle /\ Regular /\ pending = <<>>
           /\ i < Len(messages)
           /\ messages[i + 1].id = NoId
           /\ SaveEdit(i, text)) =>
             LET reloaded == fetchMessages(store)
             IN IF i < Len(reloaded) /\ reloaded[i + 1].id # NoId
                THEN /\ store'[i + 1].content = text
                     /\ lastAlert' = "none"
                ELSE /\ store' = store
                     /\ lastAlert' = "couldNotEdit"]_vars

\* the positions of the system turns in the store
SystemTurns(st) == {k \in 1..Len(st) : st[k].role = "system"}

\* C28: a conversation is seeded with a system turn at idx 0 only when it holds no turn,
\* so the store never holds more than one system turn, also when the first message fetch
\* of the load fails with a store error.
C28_SeededOnlyWhenEmpty ==
    /\ [](Cardinality(SystemTurns(store)) <= 1)
    /\ [][Cardinality(SystemTurns(store')) > Cardinality(SystemTurns(store)) => store = <<>>]_vars

\* C29: the system turn seeded at idx 0 is never deleted: deleteMsg, regenFrom on any
\* target index and compaction all leave the same stored row first, with role system and
\* idx 0; only its content may change.
C29_SystemTurnNeverDeleted ==
    /\ [](conv.loaded => /\ store # <<>>
                         /\ store[1].id = 1
                         /\ store[1].role = "system"
                         /\ store[1].idx = 0)
    /\ [][store # <<>> => /\ store' # <<>>
                          /\ store'[1].id = store[1].id
                          /\ store'[1].role = store[1].role
                          /\ store'[1].idx = store[1].idx]_vars

\* after a compaction, regenFrom(0) has cut every turn but the system turn and awaits
\* its reply
C29_Witness ==
    /\ sumLog # <<>>
    /\ Len(store) = 1
    /\ store[1].id = 1
    /\ \E s \in Slots : tasks[s].pc = "awaitRegen" /\ tasks[s].at = 0

----------------------------------------------------------------------------
(* when the summarizer is called *)

\* the step in which slot s issues a summarizer call
SummarizerCalled(s) ==
    /\ tasks[s].pc # "awaitSummary"
    /\ tasks'[s].pc = "awaitSummary"

\* C30: the Compactor is invoked after every successful dispatch and only then: a
\* summarizer call is issued only in the step of a dispatch whose assistant reply has been
\* persisted by then, never after a failed dispatch and never by edit, delete,
\* regeneration or reload.
C30_CompactorOnlyAfterPersistedReply ==
    [][\A s \in Slots :
         /\ (DispatchSucceeds(s) /\ Len(tasks[s].msgs) > SUMMARIZE_AFTER)
               => SummarizerCalled(s)
         /\ SummarizerCalled(s)
               => /\ tasks[s].pc = "awaitReply"
                  /\ lastAlert' = "none"
                  /\ Len(store') = Len(store) + 1
                  /\ store'[Len(store')].role = "assistant"
                  /\ store'[Len(store')].idx = tasks[s].at + 1]_vars

----------------------------------------------------------------------------
(* the session after a compaction *)

\* the in-memory sequence is the stored one: same turns in the same order, each with its
\* id, role, content and idx
InMemoryIsStore(ms, st) ==
    /\ Len(ms) = Len(st)
    /\ \A k \in 1..Len(ms) : /\ ms[k].id # NoId
                             /\ ms[k].id = st[k].id
                             /\ ms[k].idx = st[k].idx
                             /\ ms[k].role = st[k].role
                             /\ ms[k].content = st[k].content

\* C31: when a successful compaction finishes, the in-memory conversation and sequence
\* equal the store: every in-memory turn has an id, order and idx are those of the stored
\* rows, and the in-memory running_summary is the stored one.
C31_CompactionEndsSynchronized ==
    [][\A s \in Slots : CompactionSucceeds(s) =>
          /\ InMemoryIsStore(messages', store')
          /\ conv'.running_summary = summary']_vars

\* a dispatch has just been compacted: the session holds the summary and the re-packed
\* sequence of the store
C31_Witness ==
    /\ Len(sumLog) = 1
    /\ Idle
    /\ summary # <<>>
    /\ conv.running_summary = summary
    /\ InMemoryIsStore(messages, store)
    /\ Len(store) < SUMMARIZE_AFTER

----------------------------------------------------------------------------
(* a store error in saveEdit or deleteMsg *)

\* the step in which saveEdit ends on an update that returned an error
EditFailed == lastAlert' = "editFailed" /\ odd' > odd

\* the step in which deleteMsg ends on a delete that returned an error
DeleteFailed == lastAlert' = "deleteFailed" /\ odd' > odd

\* every stored turn shown in ms is shown in ms2
KeepsStoredTurns(ms, ms2) ==
    \A m \in Range(ms) : m.id # NoId => \E n \in Range(ms2) : n.id = m.id /\ n.content = m.content

----------------------------------------------------------------------------
(* the un-awaited user insert and the inference call *)

\* the user turn of the dispatch in slot s is in the store
UserTurnStored(s) ==
    \E r \in Range(store) : /\ r.role = "user"
                            /\ r.idx = tasks[s].at
                            /\ r.content = tasks[s].content

\* C33: within one dispatch the user turn is in the store before the assistant turn is
\* inserted and before the resynchronizing reload reads the store, in every interleaving
\* of the un-awaited user insert with the inference call; so no two stored turns of a
\* conversation that only saw dispatches share an idx.
C33_UserInsertBeforeReply ==
    /\ [](\A a, b \in 1..Len(store) : a # b => store[a].idx # store[b].idx)
    /\ [][\A s \in Slots :
            (tasks[s].pc = "awaitReply" /\ tasks'[s].pc # "awaitReply") => UserTurnStored(s)]_vars

----------------------------------------------------------------------------
(* the length of the stored sequence *)

\* C34: a completed dispatch whose compaction, if one was triggered, succeeded leaves at
\* most SUMMARIZE_AFTER + 2 stored turns, and a successful compaction leaves at most
\* SUMMARIZE_AFTER, so that the payload of a dispatch stays bounded over any run of sends.
C34_StoredSequenceBounded ==
    [][\A s \in Slots :
         /\ (DispatchSucceeds(s) /\ tasks'[s].pc = "idle")
               => Len(store') <= SUMMARIZE_AFTER + 2
         /\ (CompactionSucceeds(s) /\ Regular')
               => /\ Len(store') <= SUMMARIZE_AFTER
                  /\ Len(messages') <= SUMMARIZE_AFTER]_vars

----------------------------------------------------------------------------
(* the dispatch after a compaction *)

\* the turns a compaction summarized that are no longer stored
Removed == {id \in UNION Range(sumLog) : \A r \in Range(store) : r.id # id}

\* C38: the payload of a dispatch sent after a successful compaction is built from the
\* running_summary the store holds, so it carries the summary that compaction persisted,
\* and from a sequence that holds none of the turns the compaction removed.
C38_PayloadAfterCompaction ==
    [][\A s \in Slots : (DispatchStarts(s) /\ sumLog # <<>>) =>
          /\ conv.running_summary = summary
          /\ tasks'[s].rs = summary
          /\ summary # <<>> =>
                tasks'[s].payload[1] = [role |-> "system", content |-> SummaryHeader \o summary]
          /\ Len(tasks'[s].payload) = Len(Synthetic(summary)) + Len(messages')
          /\ \A m \in Range(messages') : m.tag \notin Removed]_vars

\* a dispatch sent after a compaction that removed ten turns awaits its reply: its payload
\* is the synthetic summary turn, the system turn, the kept turns and the new user turn
C38_Witness ==
    \E s \in Slots :
        /\ tasks[s].pc = "awaitReply"
        /\ Len(sumLog) = 1
        /\ Cardinality(Removed) = KEEP_RECENT
        /\ summary # <<>>
        /\ tasks[s].payload[1].content = SummaryHeader \o summary
        /\ Len(tasks[s].payload) = Len(store) + 2

----------------------------------------------------------------------------
(* the transcript of a compaction *)

\* C39: the Compactor never sends an empty transcript: a summarizer call is in flight only
\* for a window of at least one turn, every turn of the window contributes a non-empty
\* line, even a turn whose content is empty, and the endpoint's 'transcript (string)
\* required' rejection does not apply to the transcript sent.
C39_TranscriptNeverEmpty ==
    \A s \in Slots : tasks[s].pc = "awaitSummary" =>
        /\ Len(tasks[s].middle) >= 1
        /\ \A k \in 1..Len(tasks[s].middle) : Line(tasks[s].middle[k]) # <<>>
        /\ Transcript(tasks[s].middle) # <<>>
        /\ ~TranscriptRequired(Transcript(tasks[s].middle))

\* a summarizer call is in flight for a window that holds a turn with empty content
C39_Witness ==
    \E s \in Slots :
        /\ tasks[s].pc = "awaitSummary"
        /\ \E k \in 1..Len(tasks[s].middle) : tasks[s].middle[k].content = <<>>

----------------------------------------------------------------------------
(* termination and the status bar *)

----------------------------------------------------------------------------
(* the answers of the chat endpoint *)

\* C40: the chat endpoint checks in a fixed order and calls upstream on no rejection: a
\* request that is not a POST gets 405, a POST without API key 500, a POST with key whose
\* body has no array in messages 400; a non-2xx answer of the upstream API is passed on
\* with its status and its body as they are, and the client makes of it the message of
\* the error it throws, cut to DETAIL_MAX characters, which send then alerts.
C40_ChatEndpointAnswers ==
    response.phase # "none" =>
        LET a == response.answer IN
        /\ event.httpMethod # "POST" => a.statusCode = 405 /\ ~a.called
        /\ (event.httpMethod = "POST" /\ ~event.key) => a.statusCode = 500 /\ ~a.called
        /\ (event.httpMethod = "POST" /\ event.key
              /\ event.body \in {"noMessages", "messagesString"})
              => a.statusCode = 400 /\ ~a.called
        /\ (a.called /\ event.upstream.kind = "answers" /\ ~Ok(event.upstream.status))
              => a.statusCode = event.upstream.status /\ a.body = event.upstream.text
        /\ (response.phase = "read" /\ ~Ok(a.statusCode)) =>
              /\ response.client.failed
              /\ response.client.thrown = Slice(a.body, 0, DETAIL_MAX)
              /\ Len(response.client.thrown) <= DETAIL_MAX
              /\ IsPrefix(response.client.thrown, a.body)
              /\ Len(response.client.alert) <= DETAIL_MAX
              /\ IsPrefix(response.client.alert, StringOfError(response.client.thrown))

\* the upstream API answered 429 with a text of 601 characters: the client threw its
\* first 600 characters
C40_Witness ==
    /\ response.phase = "read"
    /\ response.answer.statusCode = 429
    /\ Len(response.answer.body) = DETAIL_MAX + 1
    /\ Len(response.client.thrown) = DETAIL_MAX

----------------------------------------------------------------------------
\* C35: every inference payload consists only of turns of the conversation that the
\* resulting user and assistant turns are written to: while a send awaits its reply, each
\* turn its payload was built from belongs to the conversation the send writes under, and
\* the summary it sends is that conversation's.  The code sets conv as soon as the new
\* conversation's row arrives and leaves messages as they were until the fetch of the turns
\* resolves, so a send in between violates this.
C35_PayloadOfWrittenConversation ==
    \A s \in Slots :
        tasks[s].pc = "awaitReply" =>
            /\ \A k \in 1..Len(tasks[s].msgs) :
                   tasks[s].msgs[k].conversation_id = tasks[s].cid
            /\ tasks[s].rs = StoredRunningSummary(tasks[s].cid)

\* C36: once all pending loads have finished, the in-memory conversation and messages are
\* those of the most recently selected conversationId, in whichever order the store
\* responses arrived.  The load effect has no cancellation, so the responses of an
\* overtaken load are applied last and this is violated.
C36_LoadsEndOnSelected ==
    (loads = <<>> /\ conv.loaded) =>
        /\ conv.id = conversationId
        /\ \A k \in 1..Len(messages) : messages[k].conversation_id = conversationId

====
